---------------------------- MODULE Spec2Model ----------------------------
(***************************************************************************)
(* A model of apostrophe's lib/push.js (browser-side call and data         *)
(* registries and their code generation) and of the template environment   *)
(* cache of lib/templates.js.                                              *)
(*                                                                         *)
(* JavaScript strings are sequences of one-character strings, so that      *)
(* search, substr, charAt, join and JSON.stringify are computed character  *)
(* by character.  Indices of JavaScript strings and arrays are 0-based, as *)
(* in the source; the helpers translate to TLA+'s 1-based sequences.       *)
(***************************************************************************)
EXTENDS Integers, Sequences, FiniteSets, TLC

(***************************************************************************)
(* JavaScript values.  A value is a record [t, v]: t is the type tag and v *)
(* the payload.  An object is the sequence of its own enumerable           *)
(* properties <<key, value>> in insertion order; "circular" is an object   *)
(* that refers to itself (the one shape JSON.stringify throws on).         *)
(***************************************************************************)
Undefined == [t |-> "undefined"]

Circular == [t |-> "circular"]

Null == [t |-> "null"]

Num(n) == [t |-> "number", num |-> n]

Str(s) == [t |-> "string", str |-> s]

Arr(items) == [t |-> "array", arr |-> items]

Obj(props) == [t |-> "object", obj |-> props]

(***************************************************************************)
(* String helpers of the JavaScript runtime.                               *)
(***************************************************************************)
\* s.substr(start): the characters of s from 0-based index start to the end.
SubstrFrom(s, start) ==
  IF start >= Len(s) THEN <<>> ELSE SubSeq(s, start + 1, Len(s))

\* s.substr(start, length): at most length characters from index start.
Substr(s, start, length) ==
  IF start >= Len(s) \/ length <= 0 THEN <<>>
  ELSE SubSeq(s, start + 1, IF start + length > Len(s) THEN Len(s) ELSE start + length)

\* s.charAt(i): the one-character string at index i, "" outside the string.
CharAt(s, i) == IF i >= 0 /\ i < Len(s) THEN s[i + 1] ELSE ""

\* s.search(/[\?\@]/): the 0-based index of the first '?' or '@' of s, or -1.
SearchPlaceholder(s) ==
  LET hits == { i \in 1..Len(s) : s[i] \in {"?", "@"} }
  IN  IF hits = {} THEN -1
      ELSE (CHOOSE i \in hits : \A j \in hits : i <= j) - 1

\* The decimal digits of a natural number.
Digit(d) == <<"0", "1", "2", "3", "4", "5", "6", "7", "8", "9">>[d + 1]

RECURSIVE Digits(_)
Digits(n) == IF n < 10 THEN <<Digit(n)>> ELSE Digits(n \div 10) \o <<Digit(n % 10)>>

\* The text `sep` placed between the strings of a sequence: Array.prototype.join.
RECURSIVE Join(_, _)
Join(strs, sep) ==
  IF Len(strs) = 0 THEN <<>>
  ELSE IF Len(strs) = 1 THEN strs[1]
  ELSE strs[1] \o sep \o Join(Tail(strs), sep)

(***************************************************************************)
(* JSON.stringify.                                                         *)
(***************************************************************************)
\* The escape of one character inside a JSON string literal.
QuoteChar(c) ==
  IF c = "\"" THEN <<"\\", "\"">>
  ELSE IF c = "\\" THEN <<"\\", "\\">>
  ELSE IF c = "\n" THEN <<"\\", "n">>
  ELSE <<c>>

RECURSIVE Quote(_)
Quote(s) == IF s = <<>> THEN <<>> ELSE QuoteChar(Head(s)) \o Quote(Tail(s))

QuoteString(s) == <<"\"">> \o Quote(s) \o <<"\"">>

\* Whether JSON.stringify throws a TypeError on the value (a cycle in it).
RECURSIVE HasCycle(_)
HasCycle(x) ==
  CASE x.t = "circular" -> TRUE
    [] x.t = "array"    -> \E i \in 1..Len(x.arr) : HasCycle(x.arr[i])
    [] x.t = "object"   -> \E i \in 1..Len(x.obj) : HasCycle(x.obj[i][2])
    [] OTHER            -> FALSE

\* The text JSON.stringify gives for a value without a cycle that is not
\* undefined.  A property whose value is undefined is left out of an object;
\* an undefined array element is written null.
RECURSIVE JSONText(_)
JSONText(x) ==
  CASE x.t = "number" -> Digits(x.num)
    [] x.t = "string" -> QuoteString(x.str)
    [] x.t = "null"   -> <<"n", "u", "l", "l">>
    [] x.t = "array"  ->
         <<"[">> \o
         Join([i \in 1..Len(x.arr) |->
                 IF x.arr[i].t = "undefined" THEN <<"n", "u", "l", "l">>
                 ELSE JSONText(x.arr[i])], <<",">>)
         \o <<"]">>
    [] x.t = "object" ->
         LET kept == SelectSeq(x.obj, LAMBDA p : p[2].t # "undefined")
         IN  <<"{">> \o
             Join([i \in 1..Len(kept) |->
                     QuoteString(kept[i][1]) \o <<":">> \o JSONText(kept[i][2])],
                  <<",">>)
             \o <<"}">>
    [] OTHER -> <<>>

\* JSON.stringify(x) as a JavaScript value: a string, or undefined when x is
\* undefined.  It is applied only where HasCycle(x) is false.
JSONStringify(x) == IF x.t = "undefined" THEN Undefined ELSE Str(JSONText(x))

(***************************************************************************)
(* The string a value becomes when it is appended to a string (code += x). *)
(***************************************************************************)
RECURSIVE StringOf(_)
StringOf(x) ==
  CASE x.t = "undefined" -> <<"u", "n", "d", "e", "f", "i", "n", "e", "d">>
    [] x.t = "number"    -> Digits(x.num)
    [] x.t = "string"    -> x.str
    [] x.t = "null"      -> <<"n", "u", "l", "l">>
    [] x.t = "array"     ->
         Join([i \in 1..Len(x.arr) |->
                 IF x.arr[i].t \in {"undefined", "null"} THEN <<>>
                 ELSE StringOf(x.arr[i])], <<",">>)
    [] OTHER             ->
         <<"[", "o", "b", "j", "e", "c", "t", " ", "O", "b", "j", "e", "c", "t", "]">>

\* array[i] with null, not undefined, outside the array.
ArgAtOrNull(arguments, i) ==
  IF i >= 0 /\ i < Len(arguments) THEN arguments[i + 1] ELSE Null

\* array[i] of a JavaScript array: undefined outside the array.
ArgAt(arguments, i) ==
  IF i >= 0 /\ i < Len(arguments) THEN arguments[i + 1] ELSE Undefined

(***************************************************************************)
(* _getCalls: the compilation of call objects [pattern, arguments].        *)
(* A scan state is the local variables of the loop of one call: code, n,   *)
(* from, whether the loop has left through break (done) and whether        *)
(* JSON.stringify threw (threw); iterations counts the loop's passes.      *)
(***************************************************************************)
ScanInit ==
  [code |-> <<" ", " ">>, n |-> 0, from |-> 0,
   done |-> FALSE, threw |-> FALSE, iterations |-> 0]

\* ScanStep with the argument of '@' JSON-encoded like that of '?'.
ScanStepEncodingAll(call, st) ==
  LET pattern == call.pattern
      found   == SearchPlaceholder(SubstrFrom(pattern, st.from))
      qat     == found + st.from
      arg     == ArgAt(call.arguments, st.n)
      copied  == st.code \o Substr(pattern, st.from, qat - st.from)
  IN  IF found # -1
      THEN IF HasCycle(arg)
           THEN [st EXCEPT !.code = copied, !.n = @ + 1, !.threw = TRUE,
                           !.iterations = @ + 1]
           ELSE [st EXCEPT !.code = copied \o StringOf(JSONStringify(arg)),
                           !.n = @ + 1, !.from = qat + 1,
                           !.iterations = @ + 1]
      ELSE [st EXCEPT !.code = @ \o SubstrFrom(pattern, st.from),
                      !.done = TRUE, !.iterations = @ + 1]

\* ScanStep looking for placeholders in the code built so far as well: one
\* found there is replaced by the text of the next argument.
ScanStepRescanning(call, st) ==
  LET pattern == call.pattern
      inCode  == SearchPlaceholder(SubstrFrom(st.code, 2))
      found   == SearchPlaceholder(SubstrFrom(pattern, st.from))
      qat     == found + st.from
      arg     == ArgAt(call.arguments, st.n)
      copied  == st.code \o Substr(pattern, st.from, qat - st.from)
  IN  IF inCode # -1
      THEN [st EXCEPT !.code = Substr(st.code, 0, inCode + 2) \o StringOf(arg)
                                 \o SubstrFrom(st.code, inCode + 3),
                      !.n = @ + 1, !.iterations = @ + 1]
      ELSE IF found # -1
      THEN [st EXCEPT !.code = copied \o StringOf(arg),
                      !.n = @ + 1, !.from = qat + 1,
                      !.iterations = @ + 1]
      ELSE [st EXCEPT !.code = @ \o SubstrFrom(pattern, st.from),
                      !.done = TRUE, !.iterations = @ + 1]

\* ScanStep with from = qat for from = qat + 1: the cursor stays on the
\* placeholder it found.
ScanStepStalling(call, st) ==
  LET pattern == call.pattern
      found   == SearchPlaceholder(SubstrFrom(pattern, st.from))
      qat     == found + st.from
      arg     == ArgAt(call.arguments, st.n)
      copied  == st.code \o Substr(pattern, st.from, qat - st.from)
  IN  IF found # -1
      THEN [st EXCEPT !.code = copied \o StringOf(arg),
                      !.n = @ + 1, !.from = qat,
                      !.iterations = @ + 1]
      ELSE [st EXCEPT !.code = @ \o SubstrFrom(pattern, st.from),
                      !.done = TRUE, !.iterations = @ + 1]

\* One pass of the while (true) loop.
ScanStep(call, st) ==
  LET pattern == call.pattern
      found   == SearchPlaceholder(SubstrFrom(pattern, st.from))
      qat     == found + st.from
      arg     == ArgAt(call.arguments, st.n)
      copied  == st.code \o Substr(pattern, st.from, qat - st.from)
  IN  IF found # -1
      THEN IF CharAt(pattern, qat) = "?"
           THEN IF HasCycle(arg)
                THEN [st EXCEPT !.code = copied, !.n = @ + 1, !.threw = TRUE,
                                !.iterations = @ + 1]
                ELSE [st EXCEPT !.code = copied \o StringOf(JSONStringify(arg)),
                                !.n = @ + 1, !.from = qat + 1,
                                !.iterations = @ + 1]
           ELSE [st EXCEPT !.code = copied \o StringOf(arg),
                           !.n = @ + 1, !.from = qat + 1,
                           !.iterations = @ + 1]
      ELSE [st EXCEPT !.code = @ \o SubstrFrom(pattern, st.from),
                      !.done = TRUE, !.iterations = @ + 1]

RECURSIVE ScanLoop(_, _)
ScanLoop(call, st) ==
  IF st.done \/ st.threw THEN st ELSE ScanLoop(call, ScanStep(call, st))

\* The iterator _getCalls maps over the calls: the line of one call, as
\* [threw, s]; s is the returned code when threw is false.
CompileCall(call) ==
  LET st == ScanLoop(call, ScanInit)
  IN  [threw |-> st.threw, s |-> IF st.threw THEN <<>> ELSE st.code \o <<";">>]

\* The elements _.map visits: those of an array; for any other object with a
\* numeric length (a function has one: its arity), the indices below the
\* length, each of them undefined.
MapElements(list) ==
  CASE list.t = "array"    -> list.arr
    [] list.t = "function" -> [i \in 1..list.length |-> Undefined]
    [] OTHER               -> <<>>

\* _getCalls with a try around each line: the lines that compile, joined.
_getCallsSkipping(calls) ==
  LET elems == MapElements(calls)
      good  == SelectSeq(elems, LAMBDA e : e.t # "undefined" /\ ~CompileCall(e).threw)
  IN  [threw |-> FALSE,
       s |-> Join([i \in 1..Len(good) |-> CompileCall(good[i]).s], <<"\n">>)]

\* _getCalls(calls): the lines joined by "\n".  An exception of any line is
\* the exception of the whole call, and nothing is returned; reading
\* call.pattern of an element that is undefined is a TypeError.
_getCalls(calls) ==
  LET elems == MapElements(calls)
      bad(i) == elems[i].t = "undefined" \/ CompileCall(elems[i]).threw
  IN  IF \E i \in 1..Len(elems) : bad(i)
      THEN [threw |-> TRUE, s |-> <<>>]
      ELSE [threw |-> FALSE,
            s |-> Join([i \in 1..Len(elems) |-> CompileCall(elems[i]).s], <<"\n">>)]

(***************************************************************************)
(* The registries of push.js.                                              *)
(***************************************************************************)
\* A call object { pattern: ..., arguments: [...] }.
Call(pattern, arguments) ==
  [t |-> "object", pattern |-> pattern, arguments |-> arguments]

\* Whether a value counts as true in a condition (!x, x || y).
Truthy(x) ==
  CASE x.t = "undefined" -> FALSE
    [] x.t = "null"      -> FALSE
    [] x.t = "number"    -> x.num # 0
    [] x.t = "string"    -> x.str # <<>>
    [] OTHER             -> TRUE

\* The properties every object literal inherits from Object.prototype that
\* the model's keys can name: constructor is the function Object, of length 1.
ObjectPrototype == [constructor |-> [t |-> "function", length |-> 1]]

\* obj[key] of an object literal whose own properties are the function own
\* (undefined where not set): the own property, else the inherited one.
GetProp(own, key) ==
  IF own[key].t # "undefined" THEN own[key]
  ELSE IF key \in DOMAIN ObjectPrototype THEN ObjectPrototype[key]
  ELSE Undefined

\* pushCall with the call put first in the list (unshift for push).
pushCallFirst(aposCalls, pattern, arguments) ==
  LET list == IF ~Truthy(aposCalls) THEN Arr(<<>>) ELSE aposCalls
  IN  Arr(<<Call(pattern, arguments)>> \o list.arr)

\* req.pushCall(pattern, ...arguments): the new value of req._aposCalls.
pushCall(aposCalls, pattern, arguments) ==
  LET list == IF ~Truthy(aposCalls) THEN Arr(<<>>) ELSE aposCalls
  IN  Arr(Append(list.arr, Call(pattern, arguments)))

\* self.getCalls(req), given req._aposCalls.
getCalls(aposCalls) ==
  _getCalls(IF Truthy(aposCalls) THEN aposCalls ELSE Arr(<<>>))

\* pushGlobalCallWhen with the key's list replaced by one that holds the
\* new call alone (an assignment for push).
pushGlobalCallWhenReplacing(globalCalls, when, pattern, arguments) ==
  [threw |-> FALSE,
   globalCalls |-> [globalCalls EXCEPT ![when] = Arr(<<Call(pattern, arguments)>>)]]

\* self.pushGlobalCallWhen(when, pattern, ...arguments), given the own
\* properties of self._globalCalls: [threw, globalCalls].  Calling push on a
\* value that has no such method is a TypeError.
pushGlobalCallWhen(globalCalls, when, pattern, arguments) ==
  LET created == IF ~Truthy(GetProp(globalCalls, when))
                 THEN [globalCalls EXCEPT ![when] = Arr(<<>>)]
                 ELSE globalCalls
      list    == GetProp(created, when)
  IN  IF list.t = "array"
      THEN [threw |-> FALSE,
            globalCalls |->
              [created EXCEPT ![when] = Arr(Append(list.arr, Call(pattern, arguments)))]]
      ELSE [threw |-> TRUE, globalCalls |-> created]

\* self.getGlobalCallsWhen(when), given the own properties of self._globalCalls.
getGlobalCallsWhen(globalCalls, when) ==
  LET list == GetProp(globalCalls, when)
  IN  _getCalls(IF Truthy(list) THEN list ELSE Arr(<<>>))

GuardLine ==
  <<" ", " ", "a", "p", "o", "s", ".", "d", "a", "t", "a", " ", "=", " ",
    "a", "p", "o", "s", ".", "d", "a", "t", "a", " ", "|", "|", " ", "{", "}", ";", "\n">>

\* The statement without the flag that makes the merge a deep one.
ExtendPrefixShallow == <<" ", " ", "$", ".", "e", "x", "t", "e", "n", "d", "(", "a", "p", "o", "s", ".", "d", "a", "t", "a", ",", " ">>

ExtendPrefix ==
  <<" ", " ", "$", ".", "e", "x", "t", "e", "n", "d", "(", "t", "r", "u", "e", ",", " ",
    "a", "p", "o", "s", ".", "d", "a", "t", "a", ",", " ">>

ExtendSuffix == <<")", ";">>

\* _getData with each datum appended as it is, without JSON.stringify.
_getDataUnencoded(data) ==
  [threw |-> FALSE,
   s |-> GuardLine \o
         Join([i \in 1..Len(data.arr) |->
                 ExtendPrefix \o StringOf(data.arr[i]) \o ExtendSuffix],
              <<"\n">>)]

\* self._getData(data): [threw, s].
_getData(data) ==
  IF \E i \in 1..Len(data.arr) : HasCycle(data.arr[i])
  THEN [threw |-> TRUE, s |-> <<>>]
  ELSE [threw |-> FALSE,
        s |-> GuardLine \o
              Join([i \in 1..Len(data.arr) |->
                      ExtendPrefix \o StringOf(JSONStringify(data.arr[i])) \o ExtendSuffix],
                   <<"\n">>)]

\* req.pushData(datum): the new value of req._aposData.
pushData(aposData, datum) ==
  LET list == IF ~Truthy(aposData) THEN Arr(<<>>) ELSE aposData
  IN  Arr(Append(list.arr, datum))

\* self.getData(req), given req._aposData.
getData(aposData) == _getData(IF Truthy(aposData) THEN aposData ELSE Arr(<<>>))

\* self.pushGlobalData(datum): the new value of self._globalData.
pushGlobalData(globalData, datum) == Arr(Append(globalData.arr, datum))

\* self.getGlobalData(), given self._globalData.
getGlobalData(globalData) ==
  _getData(IF Truthy(globalData) THEN globalData ELSE Arr(<<>>))

(***************************************************************************)
(* The state.  aposCalls[r] and aposData[r] are req._aposCalls and         *)
(* req._aposData of request r; globalCalls is the own properties of        *)
(* self._globalCalls, one per key (undefined where not set); globalData is *)
(* self._globalData.  result is the outcome of the last operation; made is *)
(* the history of the registrations that returned normally.                *)
(***************************************************************************)
VARIABLES aposCalls, aposData, globalCalls, globalData, result, made

\* The compilation of one call, pass by pass (described with ScanPass).
VARIABLES scanCall, scan, scanLine

\* A page that carries a data block (described with MergeRun).
VARIABLES mergeData, script, start, namespace, pc

\* The template environment cache (described with GetNunjucksEnv).
VARIABLES options, nunjucksEnvs, created, envResult, envCalls

\* The rendering of partials (described with Partial).
VARIABLES aposLocals, fillsNull, partialResult

pushVars == <<aposCalls, aposData, globalCalls, globalData, result, made>>

scanVars == <<scanCall, scan, scanLine>>

mergeVars == <<mergeData, script, start, namespace, pc>>

templateVars == <<options, nunjucksEnvs, created, envResult, envCalls,
                  aposLocals, fillsNull, partialResult>>

vars == <<pushVars, scanVars, mergeVars, templateVars>>

\* What the operations of the registries leave alone.
notPush == <<scanVars, mergeVars, templateVars>>

\* The requests in flight.
Reqs == {"req1", "req2"}

\* The keys global calls are registered and flushed under: the two the
\* module itself uses, one no caller has used before, and a name every
\* object literal inherits a property for.
Keys == {"user", "always", "editor", "constructor"}

\* The most entries the registries hold together in a run.
MaxEntries == 5

PatternEnableAreas ==
  <<"a", "p", "o", "s", ".", "e", "n", "a", "b", "l", "e",
    "A", "r", "e", "a", "s", "(", ")">>

PatternEnablePlayers ==
  <<"a", "p", "o", "s", ".", "e", "n", "a", "b", "l", "e",
    "P", "l", "a", "y", "e", "r", "s", "(", ")">>

\* The calls requests and modules register in a run.
CallInputs ==
  { Call(<<"m", "y", "F", "n", ".", "f", "u", "n", "c", "(", "?", ")">>,
         <<Obj(<< <<<<"a", "g", "e">>, Num(57)>> >>)>>),
    Call(<<"n", "e", "w", " ", "@", "(", "?", ")">>,
         <<Str(<<"W", "i", "d", "g", "e", "t">>), Obj(<< <<<<"x">>, Num(1)>> >>)>>),
    Call(<<"f", "(", "?", ")">>, <<Circular>>) }

\* The data requests and modules register in a run.
DataInputs ==
  { Obj(<< <<<<"a">>, Num(1)>> >>),
    Obj(<< <<<<"a">>, Obj(<< <<<<"x">>, Str(<<"1", "\n">>)>> >>)>> >>) }

RECURSIVE SumLen(_, _)
SumLen(f, keys) ==
  IF keys = {} THEN 0
  ELSE LET k == CHOOSE x \in keys : TRUE
       IN  (IF f[k].t = "array" THEN Len(f[k].arr) ELSE 0) + SumLen(f, keys \ {k})

Entries ==
  SumLen(aposCalls, Reqs) + SumLen(aposData, Reqs)
    + SumLen(globalCalls, Keys) + Len(globalData.arr)

Returned(op, who, value) ==
  [op |-> op, who |-> who, threw |-> FALSE, value |-> value]

Threw(op, who) == [op |-> op, who |-> who, threw |-> TRUE, value |-> <<>>]

Outcome(op, who, res) ==
  IF res.threw THEN Threw(op, who) ELSE Returned(op, who, res.s)

\* The module's own two registrations with their keys exchanged.
InitGlobalCallsSwapped ==
  LET empty  == [k \in Keys |-> Undefined]
      first  == pushGlobalCallWhen(empty, "always", PatternEnableAreas, <<>>)
      second == pushGlobalCallWhen(first.globalCalls, "user",
                                   PatternEnablePlayers, <<>>)
  IN  second.globalCalls

\* self._globalCalls = {} followed by the module's own two registrations.
InitGlobalCalls ==
  LET empty  == [k \in Keys |-> Undefined]
      first  == pushGlobalCallWhen(empty, "user", PatternEnableAreas, <<>>)
      second == pushGlobalCallWhen(first.globalCalls, "always",
                                   PatternEnablePlayers, <<>>)
  IN  second.globalCalls

PushInit ==
  /\ aposCalls = [r \in Reqs |-> Undefined]
  /\ aposData = [r \in Reqs |-> Undefined]
  /\ globalCalls = InitGlobalCalls
  /\ globalData = Arr(<<>>)
  /\ result = Returned("init", "", <<>>)
  /\ made = [calls  |-> [r \in Reqs |-> <<>>],
             data   |-> [r \in Reqs |-> <<>>],
             gcalls |-> [k \in Keys |->
                           CASE k = "user"   -> <<Call(PatternEnableAreas, <<>>)>>
                             [] k = "always" -> <<Call(PatternEnablePlayers, <<>>)>>
                             [] OTHER        -> <<>>],
             gdata  |-> <<>>]

\* PushCall with one list for all requests (a list kept on the request
\* prototype, not on the request).
PushCallShared(r, c) ==
  /\ Entries < MaxEntries
  /\ aposCalls' = [q \in Reqs |-> pushCall(aposCalls[r], c.pattern, c.arguments)]
  /\ result' = Returned("pushCall", r, <<>>)
  /\ made' = [made EXCEPT !.calls[r] = Append(@, c)]
  /\ UNCHANGED <<aposData, globalCalls, globalData, notPush>>

PushCall(r, c) ==
  /\ Entries < MaxEntries
  /\ aposCalls' = [aposCalls EXCEPT ![r] = pushCall(@, c.pattern, c.arguments)]
  /\ result' = Returned("pushCall", r, <<>>)
  /\ made' = [made EXCEPT !.calls[r] = Append(@, c)]
  /\ UNCHANGED <<aposData, globalCalls, globalData, notPush>>

\* GetCalls that empties the list it has compiled.
GetCallsClearing(r) ==
  /\ result' = Outcome("getCalls", r, getCalls(aposCalls[r]))
  /\ aposCalls' = [aposCalls EXCEPT ![r] = Arr(<<>>)]
  /\ UNCHANGED <<aposData, globalCalls, globalData, made, notPush>>

GetCalls(r) ==
  /\ result' = Outcome("getCalls", r, getCalls(aposCalls[r]))
  /\ UNCHANGED <<aposCalls, aposData, globalCalls, globalData, made, notPush>>

PushGlobalCallWhen(when, c) ==
  LET res == pushGlobalCallWhen(globalCalls, when, c.pattern, c.arguments)
  IN  /\ Entries < MaxEntries
      /\ globalCalls' = res.globalCalls
      /\ result' = IF res.threw THEN Threw("pushGlobalCallWhen", when)
                   ELSE Returned("pushGlobalCallWhen", when, <<>>)
      /\ made' = IF res.threw THEN made
                 ELSE [made EXCEPT !.gcalls[when] = Append(@, c)]
      /\ UNCHANGED <<aposCalls, aposData, globalData, notPush>>

GetGlobalCallsWhen(when) ==
  /\ result' = Outcome("getGlobalCallsWhen", when,
                       getGlobalCallsWhen(globalCalls, when))
  /\ UNCHANGED <<aposCalls, aposData, globalCalls, globalData, made, notPush>>

PushData(r, datum) ==
  /\ Entries < MaxEntries
  /\ aposData' = [aposData EXCEPT ![r] = pushData(@, datum)]
  /\ result' = Returned("pushData", r, <<>>)
  /\ made' = [made EXCEPT !.data[r] = Append(@, datum)]
  /\ UNCHANGED <<aposCalls, globalCalls, globalData, notPush>>

GetData(r) ==
  /\ result' = Outcome("getData", r, getData(aposData[r]))
  /\ UNCHANGED <<aposCalls, aposData, globalCalls, globalData, made, notPush>>

PushGlobalData(datum) ==
  /\ Entries < MaxEntries
  /\ globalData' = pushGlobalData(globalData, datum)
  /\ result' = Returned("pushGlobalData", "", <<>>)
  /\ made' = [made EXCEPT !.gdata = Append(@, datum)]
  /\ UNCHANGED <<aposCalls, aposData, globalCalls, notPush>>

GetGlobalData ==
  /\ result' = Outcome("getGlobalData", "", getGlobalData(globalData))
  /\ UNCHANGED <<aposCalls, aposData, globalCalls, globalData, made, notPush>>

PushNext ==
  \/ \E r \in Reqs, c \in CallInputs : PushCall(r, c)
  \/ \E r \in Reqs : GetCalls(r)
  \/ \E when \in Keys, c \in CallInputs : PushGlobalCallWhen(when, c)
  \/ \E when \in Keys : GetGlobalCallsWhen(when)
  \/ \E r \in Reqs, datum \in DataInputs : PushData(r, datum)
  \/ \E r \in Reqs : GetData(r)
  \/ \E datum \in DataInputs : PushGlobalData(datum)
  \/ GetGlobalData

(***************************************************************************)
(* The browser's side of the data block: the script getData returns, read  *)
(* statement by statement.  The argument of each $.extend statement is the *)
(* JSON text the server wrote, which the browser evaluates as a literal.   *)
(***************************************************************************)
DigitChars == {"0", "1", "2", "3", "4", "5", "6", "7", "8", "9"}

DigitValue(c) == CHOOSE d \in 0..9 : Digit(d) = c

\* The strings between the occurrences of the character sep in s.
RECURSIVE Split(_, _)
Split(s, sep) ==
  LET hits == { i \in 1..Len(s) : s[i] = sep }
  IN  IF hits = {} THEN <<s>>
      ELSE LET i == CHOOSE h \in hits : \A j \in hits : h <= j
           IN  <<SubSeq(s, 1, i - 1)>> \o Split(SubSeq(s, i + 1, Len(s)), sep)

\* The literal that starts at position i of s: [val, next], next the position
\* after it.  A literal is a number, a string, null, an array or an object.
RECURSIVE ParseNumber(_, _, _)
ParseNumber(s, i, acc) ==
  IF i <= Len(s) /\ s[i] \in DigitChars
  THEN ParseNumber(s, i + 1, 10 * acc + DigitValue(s[i]))
  ELSE [val |-> Num(acc), next |-> i]

RECURSIVE ParseChars(_, _, _)
ParseChars(s, i, acc) ==
  IF s[i] = "\"" THEN [val |-> acc, next |-> i + 1]
  ELSE IF s[i] = "\\"
       THEN ParseChars(s, i + 2, Append(acc, IF s[i + 1] = "n" THEN "\n" ELSE s[i + 1]))
  ELSE ParseChars(s, i + 1, Append(acc, s[i]))

RECURSIVE ParseValue(_, _)
RECURSIVE ParseElements(_, _, _)
RECURSIVE ParseMembers(_, _, _)
ParseValue(s, i) ==
  CASE s[i] = "{"  -> IF s[i + 1] = "}" THEN [val |-> Obj(<<>>), next |-> i + 2]
                      ELSE ParseMembers(s, i + 1, <<>>)
    [] s[i] = "["  -> IF s[i + 1] = "]" THEN [val |-> Arr(<<>>), next |-> i + 2]
                      ELSE ParseElements(s, i + 1, <<>>)
    [] s[i] = "\"" -> LET str == ParseChars(s, i + 1, <<>>)
                      IN  [val |-> Str(str.val), next |-> str.next]
    [] s[i] = "n"  -> [val |-> Null, next |-> i + 4]
    [] OTHER       -> ParseNumber(s, i, 0)

\* The elements of an array from position i on, after those of acc.
ParseElements(s, i, acc) ==
  LET elem == ParseValue(s, i)
      all  == Append(acc, elem.val)
  IN  IF s[elem.next] = "," THEN ParseElements(s, elem.next + 1, all)
      ELSE [val |-> Arr(all), next |-> elem.next + 1]

\* The members "key":value of an object from position i on, after those of acc.
ParseMembers(s, i, acc) ==
  LET key  == ParseChars(s, i + 1, <<>>)
      elem == ParseValue(s, key.next + 1)
      all  == Append(acc, <<key.val, elem.val>>)
  IN  IF s[elem.next] = "," THEN ParseMembers(s, elem.next + 1, all)
      ELSE [val |-> Obj(all), next |-> elem.next + 1]

\* The value of the property key among props, undefined when there is none.
GetOwn(props, key) ==
  LET at == { i \in 1..Len(props) : props[i][1] = key }
  IN  IF at = {} THEN Undefined ELSE props[CHOOSE i \in at : TRUE][2]

\* props after props[key] = val: in place when the property exists, and as
\* a new last property when it does not.
SetOwn(props, key, val) ==
  IF \E i \in 1..Len(props) : props[i][1] = key
  THEN [i \in 1..Len(props) |-> IF props[i][1] = key THEN <<key, val>> ELSE props[i]]
  ELSE Append(props, <<key, val>>)

\* jQuery's $.extend(true, target, object1) for a target and an object1 that
\* are both objects or both arrays.  A property of object1 that is an
\* object or an array is merged into a clone of the target's property when
\* that is of the same kind, and into an empty one when it is not; any other
\* value but undefined is assigned.  An array is extended index by index.
RECURSIVE Extend(_, _)
RECURSIVE ExtendProps(_, _)
ExtendValue(src, copy) ==
  IF copy.t = "object"
  THEN Extend(IF src.t = "object" THEN src ELSE Obj(<<>>), copy)
  ELSE IF copy.t = "array"
  THEN Extend(IF src.t = "array" THEN src ELSE Arr(<<>>), copy)
  ELSE IF copy.t = "undefined" THEN src
  ELSE copy

ExtendProps(props, object1) ==
  IF object1 = <<>> THEN props
  ELSE LET name == Head(object1)[1]
           copy == Head(object1)[2]
       IN  ExtendProps(SetOwn(props, name, ExtendValue(GetOwn(props, name), copy)),
                       Tail(object1))

\* jQuery's $.extend(target, object1): each property of object1 assigned.
RECURSIVE AssignProps(_, _)
AssignProps(props, object1) ==
  IF object1 = <<>> THEN props
  ELSE AssignProps(SetOwn(props, Head(object1)[1], Head(object1)[2]), Tail(object1))

ExtendShallow(target, object1) == Obj(AssignProps(target.obj, object1.obj))

Extend(target, object1) ==
  IF object1.t = "array"
  THEN LET longest == IF Len(target.arr) > Len(object1.arr)
                      THEN Len(target.arr) ELSE Len(object1.arr)
       IN  Arr([i \in 1..longest |->
                  IF i > Len(object1.arr) THEN target.arr[i]
                  ELSE ExtendValue(IF i <= Len(target.arr) THEN target.arr[i]
                                   ELSE Undefined, object1.arr[i])])
  ELSE Obj(ExtendProps(target.obj, object1.obj))

(***************************************************************************)
(* The compilation of one call, pass by pass.  scanCall is the call object *)
(* the iterator of _getCalls was given, scan the local variables of its    *)
(* loop and scanLine what the iterator returned.                           *)
(***************************************************************************)
\* The longest generated pattern and the most generated arguments.
MaxPatternLen == 3

MaxArguments == 2

SeqsUpTo(S, n) == UNION { [1..k -> S] : k \in 0..n }

PatternChars == {"f", "?", "@"}

ArgumentValues ==
  { Str(<<"W">>), Str(<<"?", "\"">>), Obj(<< <<<<"x">>, Num(1)>> >>),
    Undefined, Circular }

\* The calls compiled pass by pass: every pattern and argument list within
\* the bounds, and the calls of CallInputs.
ScanCalls ==
  { Call(p, a) : p \in SeqsUpTo(PatternChars, MaxPatternLen),
                 a \in SeqsUpTo(ArgumentValues, MaxArguments) }
    \cup CallInputs

NotReturned == [returned |-> FALSE, s |-> <<>>]

ScanIdle ==
  /\ scanCall = Call(<<>>, <<>>)
  /\ scan = [ScanInit EXCEPT !.done = TRUE]
  /\ scanLine = [returned |-> TRUE, s |-> <<>>]

ScanStart ==
  /\ scanCall \in ScanCalls
  /\ scan = ScanInit
  /\ scanLine = NotReturned

\* One pass of the loop.
ScanPass ==
  /\ ~scan.done /\ ~scan.threw
  /\ scan' = ScanStep(scanCall, scan)
  /\ UNCHANGED <<scanCall, scanLine, pushVars, mergeVars, templateVars>>

\* code += ";" and return code, once the loop has left through break.
ScanReturn ==
  /\ scan.done /\ ~scanLine.returned
  /\ scanLine' = [returned |-> TRUE, s |-> scan.code \o <<";">>]
  /\ UNCHANGED <<scanCall, scan, pushVars, mergeVars, templateVars>>

(***************************************************************************)
(* A page that carries the data block of a request.  mergeData is the data *)
(* registered on the request, script the lines of the block getData        *)
(* returned for it, start the browser's apos.data before the block,       *)
(* namespace apos.data now and pc the number of statements of the block    *)
(* the browser has executed.                                               *)
(***************************************************************************)
\* The most data registered on the request of the page.
MaxMerge == 2

MergeInputs ==
  { Obj(<< <<<<"a">>, Num(1)>> >>),
    Obj(<< <<<<"a">>, Num(2)>> >>),
    Obj(<< <<<<"a">>, Obj(<< <<<<"x">>, Num(1)>> >>)>> >>),
    Obj(<< <<<<"a">>, Obj(<< <<<<"y">>, Num(2)>> >>)>> >>),
    Obj(<< <<<<"a">>, Arr(<<Num(1), Num(2)>>)>> >>),
    Obj(<< <<<<"a">>, Arr(<<Num(9)>>)>> >>),
    Obj(<< <<<<"b">>, Str(<<"\"", "\n">>)>> >>) }

\* apos.data before the block runs: not yet set, or set by an earlier block.
StartNamespaces == { Undefined, Obj(<< <<<<"b">>, Num(0)>> >>) }

MergeIdle ==
  /\ mergeData = <<>>
  /\ script = <<>>
  /\ start = Undefined
  /\ namespace = Undefined
  /\ pc = 0

MergeStart ==
  /\ mergeData \in SeqsUpTo(MergeInputs, MaxMerge)
  /\ script = <<>>
  /\ start \in StartNamespaces
  /\ namespace = start
  /\ pc = 0

\* The server renders the page: the block is getData's, split into its lines.
MergeFlush ==
  /\ script = <<>>
  /\ script' = Split(getData(IF mergeData = <<>> THEN Undefined
                             ELSE Arr(mergeData)).s, "\n")
  /\ UNCHANGED <<mergeData, start, namespace, pc, pushVars, scanVars, templateVars>>

StartsWith(s, prefix) ==
  Len(prefix) <= Len(s) /\ SubSeq(s, 1, Len(prefix)) = prefix

\* The statements the browser tells apart: a deep and a plain $.extend into
\* apos.data, each up to its last argument.
DeepExtendInto ==
  <<" ", " ", "$", ".", "e", "x", "t", "e", "n", "d", "(", "t", "r", "u", "e", ",", " ",
    "a", "p", "o", "s", ".", "d", "a", "t", "a", ",", " ">>

PlainExtendInto ==
  <<" ", " ", "$", ".", "e", "x", "t", "e", "n", "d", "(",
    "a", "p", "o", "s", ".", "d", "a", "t", "a", ",", " ">>

\* What one line of the block does to apos.data: the guard sets it when it
\* is not set; $.extend(true, apos.data, x) merges x deeply, and
\* $.extend(apos.data, x) assigns the properties of x.
Execute(line, data) ==
  IF line = SubSeq(GuardLine, 1, Len(GuardLine) - 1)
  THEN IF Truthy(data) THEN data ELSE Obj(<<>>)
  ELSE IF StartsWith(line, DeepExtendInto)
  THEN Extend(data, ParseValue(line, Len(DeepExtendInto) + 1).val)
  ELSE IF StartsWith(line, PlainExtendInto)
  THEN ExtendShallow(data, ParseValue(line, Len(PlainExtendInto) + 1).val)
  ELSE data

\* The browser executes the next statement of the block.
MergeRun ==
  /\ pc < Len(script)
  /\ namespace' = Execute(script[pc + 1], namespace)
  /\ pc' = pc + 1
  /\ UNCHANGED <<mergeData, script, start, pushVars, scanVars, templateVars>>

(***************************************************************************)
(* The template environment cache of templates.js.  options is             *)
(* self.options; nunjucksEnvs maps each key set so far to its environment; *)
(* created counts the environments newNunjucksEnv has made; envResult is   *)
(* the last call of getNunjucksEnv and envCalls the history of its calls.  *)
(***************************************************************************)
\* The most calls of getNunjucksEnv in a run.
MaxEnvCalls == 3

\* __dirname of templates.js, and the module's own views directory.
Dirname == <<"/", "l", "i", "b">>

ViewsDir == Dirname \o <<"/", ".", ".", "/", "v", "i", "e", "w", "s">>

D1 == Str(<<"/", "d", "1">>)

D2 == Str(<<"/", "d", "2">>)

\* A directory whose name holds the separator of the cache key.
D1D1 == Str(<<"/", "d", "1", ":", "/", "d", "1">>)

\* The dirs arguments callers pass: none, a bare directory, lists.
DirsInputs ==
  { Undefined, Str(<<>>), D1, Arr(<<>>), Arr(<<D1>>), Arr(<<D1, D2>>),
    Arr(<<D2, D1>>), Arr(<<D1, D1>>), Arr(<<D1D1>>), Arr(<<D1, D1D1>>),
    Arr(<<D1D1, D1>>) }

\* The values of options.partialPaths.
PartialPathsInputs == { Undefined, Arr(<<Str(<<"/", "p">>)>>) }

\* a.concat(b): the elements of an array b, or the value b itself, after
\* those of a.
Concat(a, b) == Arr(a.arr \o (IF b.t = "array" THEN b.arr ELSE <<b>>))

\* self.newNunjucksEnv(dirs): a new environment, told from every other by
\* id, whose loader searches dirs.
newNunjucksEnv(dirs, id) == [t |-> "object", id |-> id, dirs |-> dirs.arr]

\* SearchDirs with the module's views directory put first.
SearchDirsViewsFirst(dirs, opts) ==
  LET given   == IF ~Truthy(dirs) THEN Arr(<<>>) ELSE dirs
      wrapped == IF given.t # "array" THEN Arr(<<given>>) ELSE given
      more    == Concat(wrapped,
                        IF Truthy(opts.partialPaths) THEN opts.partialPaths
                        ELSE Arr(<<>>))
  IN  Concat(Arr(<<Str(ViewsDir)>>), more)

\* dirs as getNunjucksEnv hands them to join and to newNunjucksEnv.
SearchDirs(dirs, opts) ==
  LET given   == IF ~Truthy(dirs) THEN Arr(<<>>) ELSE dirs
      wrapped == IF given.t # "array" THEN Arr(<<given>>) ELSE given
      more    == Concat(wrapped,
                        IF Truthy(opts.partialPaths) THEN opts.partialPaths
                        ELSE Arr(<<>>))
  IN  Concat(more, Arr(<<Str(ViewsDir)>>))

\* dirs.join(':').
DirsKey(dirs) ==
  Join([i \in 1..Len(dirs.arr) |->
          IF dirs.arr[i].t \in {"undefined", "null"} THEN <<>>
          ELSE StringOf(dirs.arr[i])], <<":">>)

\* self.getNunjucksEnv(dirs): [nunjucksEnvs, created, env, searched].
getNunjucksEnv(envs, made_, opts, dirs) ==
  LET searched == SearchDirs(dirs, opts)
      dirsKey  == DirsKey(searched)
      missing  == dirsKey \notin DOMAIN envs
      after    == IF missing
                  THEN [k \in DOMAIN envs \cup {dirsKey} |->
                          IF k = dirsKey THEN newNunjucksEnv(searched, made_ + 1)
                          ELSE envs[k]]
                  ELSE envs
  IN  [nunjucksEnvs |-> after,
       created      |-> IF missing THEN made_ + 1 ELSE made_,
       env          |-> after[dirsKey],
       searched     |-> searched.arr]

\* self.partial, the function.
SelfPartial == [t |-> "function", name |-> "partial"]

\* No partial has been rendered.
NoPartial ==
  [called |-> FALSE, name |-> <<>>, data |-> Undefined, dirs |-> Undefined,
   template |-> <<>>, context |-> Obj(<<>>), env |-> newNunjucksEnv(Arr(<<>>), 0)]

\* No partial is rendered: the locals and the underscore in use play no part.
PartialIdle ==
  /\ aposLocals = Obj(<<>>)
  /\ fillsNull = FALSE
  /\ partialResult = NoPartial

TemplateInit ==
  /\ options \in [partialPaths : PartialPathsInputs]
  /\ nunjucksEnvs = <<>>
  /\ created = 0
  /\ envResult = [dirs |-> Undefined, searched |-> <<>>,
                  env |-> newNunjucksEnv(Arr(<<>>), 0)]
  /\ envCalls = <<>>
  /\ PartialIdle

TemplateIdle ==
  /\ options = [partialPaths |-> Undefined]
  /\ nunjucksEnvs = <<>>
  /\ created = 0
  /\ envResult = [dirs |-> Undefined, searched |-> <<>>,
                  env |-> newNunjucksEnv(Arr(<<>>), 0)]
  /\ envCalls = <<>>
  /\ PartialIdle

GetNunjucksEnv(dirs) ==
  LET res == getNunjucksEnv(nunjucksEnvs, created, options, dirs)
  IN  /\ Len(envCalls) < MaxEnvCalls
      /\ nunjucksEnvs' = res.nunjucksEnvs
      /\ created' = res.created
      /\ envResult' = [dirs |-> dirs, searched |-> res.searched, env |-> res.env]
      /\ envCalls' = Append(envCalls, envResult')
      /\ UNCHANGED <<options, aposLocals, fillsNull, partialResult,
                     pushVars, scanVars, mergeVars>>

(***************************************************************************)
(* The rendering of partials.  aposLocals is self._aposLocals; fillsNull   *)
(* tells the underscore in use: its _.defaults fills a property that is    *)
(* undefined, and before 1.5 one that is null as well.  partialResult is   *)
(* the last call of partial: what the caller gave, and the template, the   *)
(* context and the environment of the rendering.                           *)
(***************************************************************************)
TitleKey == <<"t", "i", "t", "l", "e">>

PartialKey == <<"p", "a", "r", "t", "i", "a", "l">>

AposAreaKey == <<"a", "p", "o", "s", "A", "r", "e", "a">>

\* A helper of the framework, and a title.
AposArea == [t |-> "function", name |-> "aposArea"]

Hi == Str(<<"H", "i">>)

DefaultTitle == Str(<<"D", "e", "f", "a", "u", "l", "t">>)

\* The values of self._aposLocals.
LocalsInputs ==
  { Obj(<< <<AposAreaKey, AposArea>> >>),
    Obj(<< <<AposAreaKey, AposArea>>, <<TitleKey, DefaultTitle>> >>),
    Obj(<< <<TitleKey, DefaultTitle>>, <<PartialKey, AposArea>> >>) }

\* The data callers pass: none, null, objects with and without a title and
\* a partial, a property set to undefined or to null.
PartialDataInputs ==
  { Undefined, Null, Obj(<<>>),
    Obj(<< <<TitleKey, Hi>> >>),
    Obj(<< <<TitleKey, Undefined>> >>),
    Obj(<< <<TitleKey, Null>> >>),
    Obj(<< <<PartialKey, Hi>>, <<TitleKey, Hi>> >>),
    Obj(<< <<PartialKey, Undefined>>, <<AposAreaKey, Hi>> >>) }

\* The dirs callers of partial pass.
PartialDirsInputs == { Undefined, D1, Arr(<<D1, D2>>) }

PartialNames == { <<"p", "a", "g", "e">> }

\* _.extend(obj, source): every property of source is assigned.
RECURSIVE DefaultsOverriding(_, _, _)
DefaultsOverriding(props, source, nullish) ==
  IF source = <<>> THEN props
  ELSE DefaultsOverriding(SetOwn(props, Head(source)[1], Head(source)[2]),
                          Tail(source), nullish)

\* _.defaults(obj, source): each property of source, in turn, is assigned to
\* obj when obj[prop] is undefined (and, when nullish, when it is null).
\* The keys of the model are not names of Object.prototype, so obj[prop] is
\* the own property.
RECURSIVE Defaults(_, _, _)
Defaults(props, source, nullish) ==
  IF source = <<>> THEN props
  ELSE LET prop  == Head(source)[1]
           unset == \/ GetOwn(props, prop).t = "undefined"
                    \/ nullish /\ GetOwn(props, prop).t = "null"
       IN  Defaults(IF unset THEN SetOwn(props, prop, Head(source)[2]) ELSE props,
                    Tail(source), nullish)

\* self.partial(name, data, dirs): the cache after the call, and the
\* template, the context and the environment of the rendering.
partial(envs, made_, opts, locals, nullish, name, data, dirs) ==
  LET given    == IF ~Truthy(data) THEN Obj(<<>>) ELSE data
      withSelf == IF GetOwn(given.obj, PartialKey).t = "undefined"
                  THEN Obj(SetOwn(given.obj, PartialKey, SelfPartial))
                  ELSE given
      context  == Obj(Defaults(withSelf.obj, locals.obj, nullish))
      got      == getNunjucksEnv(envs, made_, opts, dirs)
  IN  [nunjucksEnvs |-> got.nunjucksEnvs,
       created      |-> got.created,
       env          |-> got.env,
       searched     |-> got.searched,
       template     |-> name \o <<".", "h", "t", "m", "l">>,
       context      |-> context]

PartialInit ==
  /\ options \in [partialPaths : PartialPathsInputs]
  /\ nunjucksEnvs = <<>>
  /\ created = 0
  /\ envResult = [dirs |-> Undefined, searched |-> <<>>,
                  env |-> newNunjucksEnv(Arr(<<>>), 0)]
  /\ envCalls = <<>>
  /\ aposLocals \in LocalsInputs
  /\ fillsNull \in BOOLEAN
  /\ partialResult = NoPartial

Partial(name, data, dirs) ==
  LET res == partial(nunjucksEnvs, created, options, aposLocals, fillsNull,
                     name, data, dirs)
  IN  /\ Len(envCalls) < MaxEnvCalls
      /\ nunjucksEnvs' = res.nunjucksEnvs
      /\ created' = res.created
      /\ envResult' = [dirs |-> dirs, searched |-> res.searched, env |-> res.env]
      /\ envCalls' = Append(envCalls, envResult')
      /\ partialResult' = [called |-> TRUE, name |-> name, data |-> data,
                           dirs |-> dirs, template |-> res.template,
                           context |-> res.context, env |-> res.env]
      /\ UNCHANGED <<options, aposLocals, fillsNull,
                     pushVars, scanVars, mergeVars>>

(***************************************************************************)
(* The registries: requests and modules register and flush in any order.   *)
(***************************************************************************)
Init == PushInit /\ ScanIdle /\ MergeIdle /\ TemplateIdle

Next == PushNext

Spec == Init /\ [][Next]_vars

(***************************************************************************)
(* The compilation of one call of ScanCalls.                               *)
(***************************************************************************)
CompileInit == PushInit /\ ScanStart /\ MergeIdle /\ TemplateIdle

CompileNext == ScanPass \/ ScanReturn

CompileSpec == CompileInit /\ [][CompileNext]_vars

\* The same, with the iterator running on: it is synchronous code, so a pass
\* or the return that is possible is taken.
CompileFairSpec == CompileSpec /\ WF_vars(ScanPass) /\ WF_vars(ScanReturn)

(***************************************************************************)
(* One page: its data block is rendered, then executed by the browser.     *)
(***************************************************************************)
MergeInit == PushInit /\ ScanIdle /\ MergeStart /\ TemplateIdle

MergeNext == MergeFlush \/ MergeRun

MergeSpec == MergeInit /\ [][MergeNext]_vars

(***************************************************************************)
(* The template environment cache under any sequence of calls.             *)
(***************************************************************************)
TemplateSpecInit == PushInit /\ ScanIdle /\ MergeIdle /\ TemplateInit

TemplateNext == \E dirs \in DirsInputs : GetNunjucksEnv(dirs)

TemplateSpec == TemplateSpecInit /\ [][TemplateNext]_vars

(***************************************************************************)
(* Partials rendered with any data and directories.                        *)
(***************************************************************************)
PartialSpecInit == PushInit /\ ScanIdle /\ MergeIdle /\ PartialInit

PartialNext ==
  \E name \in PartialNames, data \in PartialDataInputs, dirs \in PartialDirsInputs :
    Partial(name, data, dirs)

PartialSpec == PartialSpecInit /\ [][PartialNext]_vars

(***************************************************************************)
(* The properties.                                                         *)
(***************************************************************************)
IsPlaceholder(c) == c \in {"?", "@"}

\* The number of placeholders of a pattern.
Placeholders(pattern) == Len(SelectSeq(pattern, IsPlaceholder))

\* A value that has a JSON serialization.
Serializable(x) == x.t # "undefined" /\ ~HasCycle(x)

\* A registration with one argument per placeholder, each serializable.
WellFormed(call) ==
  /\ Placeholders(call.pattern) = Len(call.arguments)
  /\ \A i \in 1..Len(call.arguments) : Serializable(call.arguments[i])

\* The pattern, character by character, with each placeholder replaced by
\* the next argument: its JSON serialization for '?', its text for '@'.
RECURSIVE Substituted(_, _)
Substituted(pattern, arguments) ==
  IF pattern = <<>> THEN <<>>
  ELSE IF Head(pattern) = "?"
       THEN JSONText(Head(arguments)) \o Substituted(Tail(pattern), Tail(arguments))
  ELSE IF Head(pattern) = "@"
       THEN StringOf(Head(arguments)) \o Substituted(Tail(pattern), Tail(arguments))
  ELSE <<Head(pattern)>> \o Substituted(Tail(pattern), arguments)

CallWidget ==
  Call(<<"n", "e", "w", " ", "@", "(", "?", ")">>,
       <<Str(<<"W", "i", "d", "g", "e", "t">>), Obj(<< <<<<"x">>, Num(1)>> >>)>>)

CallMyFn ==
  Call(<<"m", "y", "F", "n", ".", "f", "u", "n", "c", "(", "?", ")">>,
       <<Obj(<< <<<<"a", "g", "e">>, Num(57)>> >>)>>)

LineWidget == <<" ", " ", "n", "e", "w", " ", "W", "i", "d", "g", "e", "t", "(", "{", "\"", "x", "\"", ":", "1", "}", ")", ";">>

LineMyFn == <<" ", " ", "m", "y", "F", "n", ".", "f", "u", "n", "c", "(", "{", "\"", "a", "g", "e", "\"", ":", "5", "7", "}", ")", ";">>

\* C1: the line compiled from a registration with as many placeholders as
\* arguments (each with a JSON serialization) is two spaces, the pattern
\* with its k-th placeholder replaced by the k-th argument (JSON for '?',
\* raw text for '@') and every other character copied in place, then ';';
\* 'new @(?)' with ('Widget', {x:1}) gives '  new Widget({"x":1});' and
\* 'myFn.func(?)' with {age:57} gives '  myFn.func({"age":57});'.
C1_CompiledLine ==
  /\ (scanLine.returned /\ WellFormed(scanCall))
       => scanLine.s = <<" ", " ">>
                         \o Substituted(scanCall.pattern, scanCall.arguments)
                         \o <<";">>
  /\ (scanLine.returned /\ scanCall = CallWidget) => scanLine.s = LineWidget
  /\ (scanLine.returned /\ scanCall = CallMyFn) => scanLine.s = LineMyFn

C1_Witness ==
  /\ scanLine.returned
  /\ scanCall = CallWidget
  /\ scan.n = 2
  /\ scanLine.s = LineWidget

\* The lines of a block of calls are those of the registrations regs, one
\* each and in their order; a block of no registration is empty.
LinesOf(text, regs) ==
  IF regs = <<>> THEN text = <<>>
  ELSE LET lines == Split(text, "\n")
       IN  /\ Len(lines) = Len(regs)
           /\ \A i \in 1..Len(regs) : lines[i] = _getCalls(Arr(<<regs[i]>>)).s

\* C2: a flush that returns, after N registrations on the request (or
\* under the key), returns N lines joined by newlines, the i-th the
\* compilation of the i-th registration.
C2_OrderPreserved ==
  /\ (result.op = "getCalls" /\ ~result.threw)
       => LinesOf(result.value, made.calls[result.who])
  /\ (result.op = "getGlobalCallsWhen" /\ ~result.threw)
       => LinesOf(result.value, made.gcalls[result.who])

C2_Witness ==
  /\ result.op = "getCalls" /\ ~result.threw
  /\ made.calls[result.who] = <<CallWidget, CallMyFn>>
  /\ result.value = LineWidget \o <<"\n">> \o LineMyFn

\* The elements of a list that may not be there yet.
Items(list) == IF list.t = "array" THEN list.arr ELSE <<>>

IsPrefix(a, b) == Len(a) <= Len(b) /\ SubSeq(b, 1, Len(a)) = a

\* C3: getCalls on a request with no call list, or an empty one, returns
\* the empty string, and getGlobalCallsWhen returns the empty string for
\* every key under which no global call has been registered.
C3_EmptyFlush ==
  /\ (result.op = "getCalls" /\ Items(aposCalls[result.who]) = <<>>)
       => (~result.threw /\ result.value = <<>>)
  /\ (result.op = "getGlobalCallsWhen" /\ made.gcalls[result.who] = <<>>)
       => (~result.threw /\ result.value = <<>>)

FlushOps == {"getCalls", "getGlobalCallsWhen", "getData", "getGlobalData"}

\* C4: a flush (getCalls, getGlobalCallsWhen, getData, getGlobalData) leaves
\* every request's and every global list as it was, and a flush repeated
\* with no registration in between has the same outcome.
C4_FlushReadsOnly ==
  [][ result'.op \in FlushOps =>
        /\ UNCHANGED <<aposCalls, aposData, globalCalls, globalData>>
        /\ (result.op = result'.op /\ result.who = result'.who) => result' = result
    ]_vars

C4_Witness ==
  /\ result.op = "getCalls" /\ ~result.threw
  /\ Len(Items(aposCalls[result.who])) = 2
  /\ result.value # <<>>

RequestOps == {"pushCall", "pushData", "getCalls", "getData"}

\* C5: an operation of request r changes no list of another request and no
\* global list, a registration changes only the list it appends to, and
\* the lists and flushes of r hold exactly the registrations made on r, in
\* the order they were made.
C5_RequestIsolation ==
  /\ [][ \A r \in Reqs :
           (result'.op \in RequestOps /\ result'.who = r) =>
             /\ \A q \in Reqs \ {r} :
                  aposCalls'[q] = aposCalls[q] /\ aposData'[q] = aposData[q]
             /\ UNCHANGED <<globalCalls, globalData>>
             /\ result'.op # "pushCall" => aposCalls'[r] = aposCalls[r]
             /\ result'.op # "pushData" => aposData'[r] = aposData[r]
       ]_vars
  /\ [](\A r \in Reqs : /\ Items(aposCalls[r]) = made.calls[r]
                        /\ Items(aposData[r]) = made.data[r])
  /\ []((result.op = "getCalls" /\ ~result.threw)
          => LinesOf(result.value, made.calls[result.who]))
  /\ []((result.op = "getData" /\ ~result.threw)
          => result.value = _getData(Arr(made.data[result.who])).s)

C5_Witness ==
  /\ result.op = "getCalls" /\ ~result.threw
  /\ made.calls["req1"] # <<>>
  /\ made.calls["req2"] # <<>>
  /\ made.calls["req1"] # made.calls["req2"]
  /\ made.data[result.who] # <<>>

\* C6: no global list ever gets shorter and an entry keeps its position and
\* content, so every flush that returns holds the line of every call
\* registered under its key, and the statement of every datum registered.
C6_GlobalAppendOnly ==
  /\ [][ /\ \A k \in Keys : IsPrefix(Items(globalCalls[k]), Items(globalCalls'[k]))
         /\ IsPrefix(globalData.arr, globalData'.arr)
       ]_vars
  /\ []((result.op = "getGlobalCallsWhen" /\ ~result.threw)
          => LinesOf(result.value, made.gcalls[result.who]))
  /\ []((result.op = "getGlobalData" /\ ~result.threw)
          => \A i \in 1..Len(made.gdata) :
               Split(result.value, "\n")[i + 1]
                 = ExtendPrefix \o JSONText(made.gdata[i]) \o ExtendSuffix)

C6_Witness ==
  /\ result.op = "getGlobalCallsWhen" /\ ~result.threw
  /\ result.who = "user"
  /\ Len(made.gcalls["user"]) = 3
  /\ Len(made.gdata) = 1

\* C7: pushGlobalCallWhen succeeds for every key, appends one registration
\* to that key's list and leaves the lists of all other keys unchanged.
C7_EveryKey ==
  [][ \A k \in Keys :
        (result'.op = "pushGlobalCallWhen" /\ result'.who = k) =>
          /\ ~result'.threw
          /\ Len(Items(globalCalls'[k])) = Len(Items(globalCalls[k])) + 1
          /\ \A other \in Keys \ {k} : globalCalls'[other] = globalCalls[other]
    ]_vars

\* C8: the block getData and getGlobalData return is the guard line, then one
\* $.extend statement per registered datum, in registration order, each
\* with the JSON serialization of its datum; with no datum, the guard alone.
C8_DataBlock ==
  (result.op \in {"getData", "getGlobalData"})
    => LET data  == IF result.op = "getData" THEN made.data[result.who]
                    ELSE made.gdata
           lines == Split(result.value, "\n")
       IN  /\ ~result.threw
           /\ lines[1] \o <<"\n">> = GuardLine
           /\ data = <<>> => result.value = GuardLine
           /\ data # <<>> =>
                /\ Len(lines) = 1 + Len(data)
                /\ \A i \in 1..Len(data) :
                     lines[i + 1]
                       = ExtendPrefix \o JSONText(data[i]) \o ExtendSuffix

C8_Witness ==
  /\ result.op = "getData"
  /\ Len(made.data[result.who]) = 2
  /\ made.data[result.who][1] # made.data[result.who][2]

\* The browser has executed the whole block.
Executed == script # <<>> /\ pc = Len(script)

KeysOf(props) == [i \in 1..Len(props) |-> props[i][1]]

InSeq(x, seq) == \E i \in 1..Len(seq) : seq[i] = x

\* The merge the claim states: objects key by key, recursively; an array or
\* a scalar of the later datum in place of what was there.
RECURSIVE MergedWholesale(_, _)
MergedWholesale(earlier, later) ==
  IF earlier.t = "object" /\ later.t = "object"
  THEN LET old == earlier.obj
           new == later.obj
           fresh == SelectSeq(new, LAMBDA p : ~InSeq(p[1], KeysOf(old)))
       IN  Obj([i \in 1..Len(old) |->
                  IF InSeq(old[i][1], KeysOf(new))
                  THEN <<old[i][1], MergedWholesale(old[i][2], GetOwn(new, old[i][1]))>>
                  ELSE old[i]]
               \o fresh)
  ELSE later

\* The same, with arrays merged index by index: an element of the later
\* array is merged into the element at its index, and the elements of the
\* earlier array beyond the later one's length stay.
RECURSIVE MergedByIndex(_, _)
MergedByIndex(earlier, later) ==
  IF earlier.t = "object" /\ later.t = "object"
  THEN LET old == earlier.obj
           new == later.obj
           fresh == SelectSeq(new, LAMBDA p : ~InSeq(p[1], KeysOf(old)))
       IN  Obj([i \in 1..Len(old) |->
                  IF InSeq(old[i][1], KeysOf(new))
                  THEN <<old[i][1], MergedByIndex(old[i][2], GetOwn(new, old[i][1]))>>
                  ELSE old[i]]
               \o fresh)
  ELSE IF earlier.t = "array" /\ later.t = "array"
  THEN Arr([i \in 1..(IF Len(earlier.arr) > Len(later.arr)
                      THEN Len(earlier.arr) ELSE Len(later.arr)) |->
              IF i > Len(later.arr) THEN earlier.arr[i]
              ELSE IF i > Len(earlier.arr) THEN later.arr[i]
              ELSE MergedByIndex(earlier.arr[i], later.arr[i])])
  ELSE later

RECURSIVE AllMerged(_, _, _)
AllMerged(Merged(_, _), into, data) ==
  IF data = <<>> THEN into
  ELSE AllMerged(Merged, Merged(into, Head(data)), Tail(data))

\* The namespace the block starts from: apos.data, or {} when it is not set.
Shared == IF start.t = "undefined" THEN Obj(<<>>) ELSE start

A1 == Obj(<< <<<<"a">>, Num(1)>> >>)

A2 == Obj(<< <<<<"a">>, Num(2)>> >>)

AX == Obj(<< <<<<"a">>, Obj(<< <<<<"x">>, Num(1)>> >>)>> >>)

AY == Obj(<< <<<<"a">>, Obj(<< <<<<"y">>, Num(2)>> >>)>> >>)

A12 == Obj(<< <<<<"a">>, Arr(<<Num(1), Num(2)>>)>> >>)

A9 == Obj(<< <<<<"a">>, Arr(<<Num(9)>>)>> >>)

\* C9 as stated: executing the block leaves the left-to-right merge of the
\* registered data in the namespace, objects merged key by key and arrays
\* and scalars replaced wholesale by the later value.
C9_ArraysReplaced ==
  Executed => namespace = AllMerged(MergedWholesale, Shared, mergeData)

\* C9, amended: executing the block leaves the left-to-right deep merge of
\* the registered data in the namespace: objects merged key by key and
\* arrays index by index, recursively, scalars replaced by the later value
\* and the later registration winning a conflict ({a:1} then {a:2} ends
\* with a == 2, {a:{x:1}} then {a:{y:2}} with a == {x:1,y:2}, {a:[1,2]}
\* then {a:[9]} with a == [9,2]); the order matters ({a:2} then {a:1} ends
\* with a == 1).
C9_DeepMerge ==
  Executed =>
    /\ namespace = AllMerged(MergedByIndex, Shared, mergeData)
    /\ mergeData = <<A1, A2>> => GetOwn(namespace.obj, <<"a">>) = Num(2)
    /\ mergeData = <<A2, A1>> => GetOwn(namespace.obj, <<"a">>) = Num(1)
    /\ mergeData = <<AX, AY>>
         => GetOwn(namespace.obj, <<"a">>)
              = Obj(<< <<<<"x">>, Num(1)>>, <<<<"y">>, Num(2)>> >>)
    /\ mergeData = <<A12, A9>>
         => GetOwn(namespace.obj, <<"a">>) = Arr(<<Num(9), Num(2)>>)

C9_Witness ==
  /\ Executed
  /\ start = Undefined
  /\ mergeData = <<A12, A9>>
  /\ GetOwn(namespace.obj, <<"a">>) = Arr(<<Num(9), Num(2)>>)

\* The directories a caller gave, as a list.
Given(dirs) ==
  IF ~Truthy(dirs) THEN <<>>
  ELSE IF dirs.t # "array" THEN <<dirs>>
  ELSE dirs.arr

Count(x, seq) == Cardinality({ i \in 1..Len(seq) : seq[i] = x })

\* The same directories in another order.
Reordered(a, b) ==
  /\ a # b
  /\ Len(a) = Len(b)
  /\ \A i \in 1..Len(a) : Count(a[i], a) = Count(a[i], b)

\* C10: every call of getNunjucksEnv with the same directories in the same
\* order returns the instance the first such call returned, one creation
\* serves each key, and a call with the same directories in a different
\* order returns a distinct instance.
C10_Memoized ==
  /\ created = Cardinality(DOMAIN nunjucksEnvs)
  /\ \A i, j \in 1..Len(envCalls) :
       /\ Given(envCalls[i].dirs) = Given(envCalls[j].dirs)
            => envCalls[i].env = envCalls[j].env
       /\ Reordered(Given(envCalls[i].dirs), Given(envCalls[j].dirs))
            => envCalls[i].env.id # envCalls[j].env.id

\* The caller's data as an object: {} when there is none.
GivenData == IF ~Truthy(partialResult.data) THEN <<>> ELSE partialResult.data.obj

Has(props, key) == InSeq(key, KeysOf(props))

\* data.partial was unset: not there, or undefined.
PartialUnset == GetOwn(GivenData, PartialKey).t = "undefined"

\* C11 as stated: in the context of the rendering every key of the caller's
\* data keeps the caller's value (partial apart, when it was unset), every
\* default local whose key the data does not hold is added, and partial is
\* the facade's own partial when data.partial was unset; data that is not
\* there counts as {}.
C11_ExistingKeysWin ==
  partialResult.called =>
    LET context == partialResult.context.obj
    IN  /\ \A i \in 1..Len(GivenData) :
             (GivenData[i][1] = PartialKey /\ PartialUnset)
             \/ GetOwn(context, GivenData[i][1]) = GivenData[i][2]
        /\ \A i \in 1..Len(aposLocals.obj) :
             LET key == aposLocals.obj[i][1]
             IN  (~Has(GivenData, key) /\ key # PartialKey)
                   => GetOwn(context, key) = aposLocals.obj[i][2]
        /\ PartialUnset => GetOwn(context, PartialKey) = SelfPartial

\* C11, amended: every key of the caller's data whose value is neither
\* undefined nor null keeps the caller's value; a default local is added
\* when the data does not hold its key or holds it as undefined (as null
\* too, with an underscore before 1.5), and otherwise changes nothing;
\* partial is the facade's own partial when data.partial was unset, whatever
\* the default locals hold; the context has no other key; data that is not
\* there counts as {}.
C11_DefaultsFill ==
  partialResult.called =>
    LET context == partialResult.context.obj
        Unset(v) == v.t = "undefined" \/ (fillsNull /\ v.t = "null")
    IN  /\ \A i \in 1..Len(GivenData) :
             GivenData[i][2].t \notin {"undefined", "null"}
               => GetOwn(context, GivenData[i][1]) = GivenData[i][2]
        /\ \A i \in 1..Len(aposLocals.obj) :
             LET key == aposLocals.obj[i][1]
                 had == IF key = PartialKey /\ PartialUnset THEN SelfPartial
                        ELSE GetOwn(GivenData, key)
             IN  GetOwn(context, key)
                   = IF Unset(had) THEN aposLocals.obj[i][2] ELSE had
        /\ PartialUnset => GetOwn(context, PartialKey) = SelfPartial
        /\ \A i \in 1..Len(context) :
             \/ Has(GivenData, context[i][1])
             \/ Has(aposLocals.obj, context[i][1])
             \/ context[i][1] = PartialKey
        /\ ~Truthy(partialResult.data)
             => partialResult.context
                  = Obj(Defaults(<< <<PartialKey, SelfPartial>> >>,
                                 aposLocals.obj, fillsNull))
        /\ partialResult.template = partialResult.name \o <<".", "h", "t", "m", "l">>

C11_Witness ==
  /\ partialResult.called
  /\ partialResult.data = Obj(<< <<TitleKey, Hi>> >>)
  /\ Has(aposLocals.obj, TitleKey)
  /\ Has(aposLocals.obj, AposAreaKey)
  /\ GetOwn(partialResult.context.obj, TitleKey) = Hi
  /\ GetOwn(partialResult.context.obj, AposAreaKey) = AposArea
  /\ GetOwn(partialResult.context.obj, PartialKey) = SelfPartial

\* No caller has registered a global call: the history of global calls holds
\* the module's own two registrations only.
NoCallerRegistered ==
  /\ made.gcalls["user"] = <<Call(PatternEnableAreas, <<>>)>>
  /\ made.gcalls["always"] = <<Call(PatternEnablePlayers, <<>>)>>
  /\ \A k \in Keys \ {"user", "always"} : made.gcalls[k] = <<>>

LineEnableAreas == <<" ", " ">> \o PatternEnableAreas \o <<";">>

LineEnablePlayers == <<" ", " ">> \o PatternEnablePlayers \o <<";">>

\* C12: until a caller registers a global call, the registry holds one
\* registration under 'user' (apos.enableAreas()), one under 'always'
\* (apos.enablePlayers()) and no list under any other key, and
\* getGlobalCallsWhen returns '  apos.enableAreas();' for 'user' and
\* '  apos.enablePlayers();' for 'always'.
C12_PredefinedCalls ==
  NoCallerRegistered =>
    /\ globalCalls["user"] = Arr(<<Call(PatternEnableAreas, <<>>)>>)
    /\ globalCalls["always"] = Arr(<<Call(PatternEnablePlayers, <<>>)>>)
    /\ \A k \in Keys \ {"user", "always"} : globalCalls[k] = Undefined
    /\ (result.op = "getGlobalCallsWhen" /\ result.who = "user")
         => (~result.threw /\ result.value = LineEnableAreas)
    /\ (result.op = "getGlobalCallsWhen" /\ result.who = "always")
         => (~result.threw /\ result.value = LineEnablePlayers)

C12_Witness ==
  /\ NoCallerRegistered
  /\ result.op = "getGlobalCallsWhen" /\ result.who = "always"
  /\ result.value = LineEnablePlayers
  /\ globalCalls["user"] = Arr(<<Call(PatternEnableAreas, <<>>)>>)
  /\ made.calls["req1"] # <<>>

UndefinedText == <<"u", "n", "d", "e", "f", "i", "n", "e", "d">>

\* The pattern with each placeholder replaced by the next argument while
\* there is one (JSON for '?', text for '@'), and by the text undefined
\* when there is none left.
RECURSIVE SubstitutedWhile(_, _)
SubstitutedWhile(pattern, arguments) ==
  IF pattern = <<>> THEN <<>>
  ELSE IF ~IsPlaceholder(Head(pattern))
       THEN <<Head(pattern)>> \o SubstitutedWhile(Tail(pattern), arguments)
  ELSE IF arguments = <<>>
       THEN UndefinedText \o SubstitutedWhile(Tail(pattern), <<>>)
  ELSE (IF Head(pattern) = "?" THEN JSONText(Head(arguments))
        ELSE StringOf(Head(arguments)))
         \o SubstitutedWhile(Tail(pattern), Tail(arguments))

\* The arguments the placeholders of the call consume.
Consumed(call) ==
  SubSeq(call.arguments, 1,
         IF Placeholders(call.pattern) < Len(call.arguments)
         THEN Placeholders(call.pattern) ELSE Len(call.arguments))

\* The placeholder and argument counts of the call differ, and the
\* arguments that are consumed have a JSON serialization.
Mismatched(call) ==
  /\ Placeholders(call.pattern) # Len(call.arguments)
  /\ \A i \in 1..Len(Consumed(call)) : Serializable(Consumed(call)[i])

\* C13: the compilation of a call whose placeholder and argument counts
\* differ does not fail (no exception, and it goes on until it returns);
\* with fewer placeholders than arguments the line is that of the call
\* without its surplus arguments; with more, each placeholder beyond the last
\* argument, '?' or '@', becomes the text undefined and the rest of the
\* pattern follows, then ';'.
C13_CountMismatch ==
  Mismatched(scanCall) =>
    /\ ~scan.threw
    /\ ~scanLine.returned => ENABLED CompileNext
    /\ scanLine.returned =>
         /\ scanLine.s = <<" ", " ">>
                           \o SubstitutedWhile(scanCall.pattern, scanCall.arguments)
                           \o <<";">>
         /\ Placeholders(scanCall.pattern) < Len(scanCall.arguments)
              => scanLine.s = <<" ", " ">>
                                \o Substituted(scanCall.pattern, Consumed(scanCall))
                                \o <<";">>

C13_Witness ==
  /\ scanLine.returned
  /\ scanCall = Call(<<"?", "@", "f">>, <<Str(<<"W">>)>>)
  /\ scanLine.s = <<" ", " ", "\"", "W", "\"">> \o UndefinedText \o <<"f", ";">>

\* JSON.stringify throws on the k-th argument of the call, and the k-th
\* placeholder of its pattern is a '?'.
RECURSIVE Unserializable(_, _)
Unserializable(pattern, arguments) ==
  IF pattern = <<>> \/ arguments = <<>> THEN FALSE
  ELSE IF Head(pattern) = "?"
       THEN HasCycle(Head(arguments)) \/ Unserializable(Tail(pattern), Tail(arguments))
  ELSE IF Head(pattern) = "@"
       THEN Unserializable(Tail(pattern), Tail(arguments))
  ELSE Unserializable(Tail(pattern), arguments)

\* One of the registrations regs has such an argument.
HoldsUnserializable(regs) ==
  \E i \in 1..Len(regs) : Unserializable(regs[i].pattern, regs[i].arguments)

CallCircular == Call(<<"f", "(", "?", ")">>, <<Circular>>)

\* C14: a registration with an argument JSON.stringify throws on, bound to a
\* '?', succeeds and is appended like any other (under a key that names no
\* inherited property, for a global call); a flush of a list that
\* holds one throws and returns nothing, and a flush of a request's list
\* throws only then; a flush that throws changes no list, and a list that
\* holds such a registration holds it ever after, so that each later flush
\* of it throws as well.
C14_FailsAtFlush ==
  /\ [](\A r \in Reqs : Items(aposCalls[r]) = made.calls[r])
  /\ [](\A k \in Keys : Items(globalCalls[k]) = made.gcalls[k])
  /\ []((result.op \in {"pushCall", "pushGlobalCallWhen"}
            /\ result.who \notin DOMAIN ObjectPrototype)
          => ~result.threw)
  /\ [](result.op = "getCalls"
          => /\ result.threw <=> HoldsUnserializable(made.calls[result.who])
             /\ result.threw => result.value = <<>>)
  /\ []((result.op = "getGlobalCallsWhen"
            /\ HoldsUnserializable(made.gcalls[result.who]))
          => (result.threw /\ result.value = <<>>))
  /\ [][ /\ (result'.op \in {"getCalls", "getGlobalCallsWhen"} /\ result'.threw)
             => UNCHANGED <<aposCalls, aposData, globalCalls, globalData>>
         /\ \A r \in Reqs : HoldsUnserializable(made.calls[r])
                                => HoldsUnserializable(made'.calls[r])
         /\ \A k \in Keys : HoldsUnserializable(made.gcalls[k])
                                => HoldsUnserializable(made'.gcalls[k])
       ]_vars

C14_Witness ==
  /\ result.op = "getCalls" /\ result.threw
  /\ made.calls[result.who] = <<CallWidget, CallCircular>>
  /\ Items(aposCalls[result.who]) = <<CallWidget, CallCircular>>
  /\ result.value = <<>>

\* The search list the claim states for a call with dirs: the caller's
\* directories, the configured partialPaths, the module's views directory.
Normalized(dirs) ==
  Given(dirs) \o Items(options.partialPaths) \o <<Str(ViewsDir)>>

\* C15: for every call of getNunjucksEnv the search list is the caller's
\* directories in their order (a bare directory as a list of one, none as
\* the empty list), then the configured partialPaths, then the module's
\* views directory, which is always last; the cache holds an environment
\* under the key of that list, and every cached environment was created
\* with the search list of a call, under that list's key.
C15_SearchList ==
  /\ \A i \in 1..Len(envCalls) :
       LET searched == envCalls[i].searched
       IN  /\ searched = Normalized(envCalls[i].dirs)
           /\ searched[Len(searched)] = Str(ViewsDir)
           /\ DirsKey(Arr(Normalized(envCalls[i].dirs))) \in DOMAIN nunjucksEnvs
  /\ \A k \in DOMAIN nunjucksEnvs :
       \E i \in 1..Len(envCalls) :
         /\ nunjucksEnvs[k].dirs = Normalized(envCalls[i].dirs)
         /\ k = DirsKey(Arr(Normalized(envCalls[i].dirs)))

C15_Witness ==
  /\ Len(envCalls) = 2
  /\ options.partialPaths = Arr(<<Str(<<"/", "p">>)>>)
  /\ envCalls[1].dirs = Undefined
  /\ envCalls[1].searched = <<Str(<<"/", "p">>), Str(ViewsDir)>>
  /\ envCalls[2].dirs = D1
  /\ envCalls[2].searched = <<D1, Str(<<"/", "p">>), Str(ViewsDir)>>
  /\ envCalls[2].env.dirs = <<D1, Str(<<"/", "p">>), Str(ViewsDir)>>

\* C16: the environment a call of getNunjucksEnv returns was created with the
\* search list of that call, and two calls whose search lists differ (in an
\* element, in order or in length) never get the same environment, whatever
\* the directory names, ':' included.
C16_NoSharedEnv ==
  \A i, j \in 1..Len(envCalls) :
    /\ envCalls[i].env.dirs = envCalls[i].searched
    /\ envCalls[i].searched # envCalls[j].searched
         => envCalls[i].env.id # envCalls[j].env.id

\* What code += appends for a placeholder c and the argument arg.
Inserted(c, arg) ==
  IF c = "?" THEN StringOf(JSONStringify(arg)) ELSE StringOf(arg)

\* The characters of the pattern in their order, each placeholder giving way
\* to what is inserted for the argument at the next position, from k on.
RECURSIVE Woven(_, _, _)
Woven(pattern, arguments, k) ==
  IF pattern = <<>> THEN <<>>
  ELSE IF IsPlaceholder(Head(pattern))
       THEN Inserted(Head(pattern), ArgAt(arguments, k))
              \o Woven(Tail(pattern), arguments, k + 1)
  ELSE <<Head(pattern)>> \o Woven(Tail(pattern), arguments, k)

\* An argument whose JSON and whose text hold a placeholder character.
QuestionQuote == Str(<<"?", "\"">>)

\* C17: the compilation never takes more argument positions than the
\* pattern has '?' and '@', and, when its loop is left, exactly as many,
\* whatever the arguments' JSON or text holds ('?' and '@' included); the
\* line is the pattern's characters, once each and in their order, with
\* each placeholder of the pattern, and nothing else, giving way to what
\* is inserted for its argument.
C17_NoRescan ==
  /\ scan.n <= Placeholders(scanCall.pattern)
  /\ scan.done => scan.n = Placeholders(scanCall.pattern)
  /\ scanLine.returned
       => scanLine.s = <<" ", " ">>
                         \o Woven(scanCall.pattern, scanCall.arguments, 0)
                         \o <<";">>

C17_Witness ==
  /\ scanLine.returned
  /\ scanCall = Call(<<"?", "f", "@">>, <<QuestionQuote, QuestionQuote>>)
  /\ scan.n = 2
  /\ scanLine.s = <<" ", " ", "\"", "?", "\\", "\"", "\"", "f", "?", "\"", ";">>

\* C18 as stated: from grows in every pass of the loop and never exceeds the
\* length of the pattern, and the compilation of every call ends, after
\* exactly one pass more than the pattern has placeholders and with n equal
\* to their number.
C18_EveryPassAdvances ==
  /\ [][ scan'.iterations # scan.iterations => scan'.from > scan.from ]_vars
  /\ [](scan.from <= Len(scanCall.pattern))
  /\ []((scan.done \/ scan.threw)
          => /\ scan.iterations = Placeholders(scanCall.pattern) + 1
             /\ scan.n = Placeholders(scanCall.pattern))

\* C18, amended: every pass is one iteration; from grows in every pass that
\* finds a placeholder and is followed by another, never exceeds the length
\* of the pattern, and stays in the pass that ends the loop; the loop ends
\* after at most one pass more than the pattern has placeholders: through
\* break, in the pass that finds no placeholder, after exactly that many
\* passes and with n equal to the number of placeholders, when no argument
\* bound to a '?' makes JSON.stringify throw, and through that exception,
\* earlier, when one does; until then a pass is always possible, and the
\* loop does end.
C18_ScanEnds ==
  /\ [][ scan' # scan =>
           /\ scan'.iterations = scan.iterations + 1
           /\ (~scan'.done /\ ~scan'.threw) => scan'.from > scan.from
           /\ (scan'.done \/ scan'.threw) => scan'.from = scan.from
       ]_vars
  /\ [](scan.from <= Len(scanCall.pattern))
  /\ [](scan.iterations <= Placeholders(scanCall.pattern) + 1)
  /\ [](scan.done
          => /\ scan.iterations = Placeholders(scanCall.pattern) + 1
             /\ scan.n = Placeholders(scanCall.pattern)
             /\ ~Unserializable(scanCall.pattern, scanCall.arguments))
  /\ [](scan.threw
          => /\ scan.iterations <= Placeholders(scanCall.pattern)
             /\ scan.n <= Placeholders(scanCall.pattern)
             /\ Unserializable(scanCall.pattern, scanCall.arguments))
  /\ []((~scan.done /\ ~scan.threw) => ENABLED ScanPass)
  /\ <>(scan.done \/ scan.threw)

C18_Witness ==
  /\ scan.done
  /\ scanCall = Call(<<"?", "@", "f">>, <<Str(<<"W">>), Str(<<"W">>)>>)
  /\ scan.iterations = 3
  /\ scan.n = 2
  /\ scan.from = 2

=============================================================================
